---- MODULE Spec2Model ----
(***************************************************************************)
(* Model of the multi-agent debate orchestrator (ma_debate.debate.Debate)  *)
(* and its judges (ma_debate.judge).                                       *)
(*                                                                         *)
(* Texts.  An answer text is a sequence of lines (joined by "\n"); a       *)
(* completion returned to the judge is a sequence of lexical tokens (the   *)
(* two brace characters are tokens of their own, so str.find("{") and      *)
(* str.rfind("}") act on token positions exactly as on characters).        *)
(* Floats are kept in half points: the float x is the integer 2*x, and     *)
(* NaN is a value of its own.                                              *)
(***************************************************************************)
EXTENDS Integers, Sequences, FiniteSets, TLC

\* ------------------------------------------------------------------ bounds
MaxAgents == 3
MaxRounds == 2
MaxLines == 4

\* ------------------------------------------------------- program constants
PanelN == 3
LongTextLimit == 3000

\* ---------------------------------------------------------------- floats
Fl(h) == [nan |-> FALSE, h |-> h]
NaN == [nan |-> TRUE, h |-> 0]
FloatOfInt(n) == Fl(2 * n)
FAdd(a, b) == IF a.nan \/ b.nan THEN NaN ELSE Fl(a.h + b.h)
FMulInt(a, w) == IF a.nan THEN NaN ELSE Fl(a.h * w)
FGt(a, b) == ~a.nan /\ ~b.nan /\ a.h > b.h
FGe(a, b) == ~a.nan /\ ~b.nan /\ a.h >= b.h

\* ---------------------------------------------------- python str helpers
\* str.find / str.rfind: 0-based position of the first / last occurrence, -1 if none
Find(s, tok) ==
    IF \E i \in 1..Len(s) : s[i] = tok
    THEN (CHOOSE i \in 1..Len(s) : s[i] = tok /\ \A j \in 1..(i - 1) : s[j] /= tok) - 1
    ELSE -1

RFind(s, tok) ==
    IF \E i \in 1..Len(s) : s[i] = tok
    THEN (CHOOSE i \in 1..Len(s) : s[i] = tok /\ \A j \in (i + 1)..Len(s) : s[j] /= tok) - 1
    ELSE -1

\* one bound of a python slice: a negative bound counts from the end, then clamps
PyIndex(n, len) ==
    LET m == IF n < 0 THEN n + len ELSE n
    IN  IF m < 0 THEN 0 ELSE IF m > len THEN len ELSE m

\* s[a:b]
PySlice(s, a, b) ==
    LET lo == PyIndex(a, Len(s))
        hi == PyIndex(b, Len(s))
    IN  IF hi <= lo THEN <<>> ELSE SubSeq(s, lo + 1, hi)

\* ------------------------------------------------------------ json tokens
Tok(t, s, n) == [t |-> t, s |-> s, n |-> n]
LB == Tok("punct", "{", 0)
RB == Tok("punct", "}", 0)
COLON == Tok("punct", ":", 0)
COMMA == Tok("punct", ",", 0)
Str(s) == Tok("str", s, 0)
Num(n) == Tok("num", "", n)
NULL == Tok("lit", "null", 0)
NANLIT == Tok("lit", "NaN", 0)
WORD == Tok("word", "prose", 0)

\* parsed json values, all of one shape: m holds an object's members in order
Val(t, s, n, m) == [t |-> t, s |-> s, n |-> n, m |-> m]
NullV == Val("null", "", 0, <<>>)
StrV(s) == Val("str", s, 0, <<>>)
NumV(n) == Val("num", "", n, <<>>)
NanV == Val("nan", "", 0, <<>>)
ObjV(m) == Val("obj", "", 0, m)
ParseFail == [ok |-> FALSE, v |-> NullV, i |-> 0]
ParseOk(v, i) == [ok |-> TRUE, v |-> v, i |-> i]

RECURSIVE ParseValue(_, _)
RECURSIVE ParseMembers(_, _, _)

\* members of an object from position i (after "{" or ","), up to the closing "}"
ParseMembers(s, i, acc) ==
    IF i + 2 > Len(s) \/ s[i].t /= "str" \/ s[i + 1] /= COLON THEN ParseFail
    ELSE LET r == ParseValue(s, i + 2)
         IN  IF ~r.ok \/ r.i > Len(s) THEN ParseFail
             ELSE LET acc2 == Append(acc, [k |-> s[i].s, v |-> r.v])
                  IN  IF s[r.i] = RB THEN ParseOk(ObjV(acc2), r.i + 1)
                      ELSE IF s[r.i] = COMMA THEN ParseMembers(s, r.i + 1, acc2)
                      ELSE ParseFail

\* one json value at position i; i of the result is the position after it
ParseValue(s, i) ==
    IF i > Len(s) THEN ParseFail
    ELSE IF s[i].t = "num" THEN ParseOk(NumV(s[i].n), i + 1)
    ELSE IF s[i].t = "str" THEN ParseOk(StrV(s[i].s), i + 1)
    ELSE IF s[i] = NULL THEN ParseOk(NullV, i + 1)
    ELSE IF s[i] = NANLIT THEN ParseOk(NanV, i + 1)
    ELSE IF s[i] = LB
         THEN IF i + 1 <= Len(s) /\ s[i + 1] = RB THEN ParseOk(ObjV(<<>>), i + 2)
              ELSE ParseMembers(s, i + 1, <<>>)
    ELSE ParseFail

\* json.loads: the whole text is one value, else it raises
JsonLoads(s) ==
    LET r == ParseValue(s, 1)
    IN  IF r.ok /\ r.i = Len(s) + 1 THEN r ELSE ParseFail

\* dict.get(key, default) on a parsed object: the last member of that key wins
DictGet(m, key, default) ==
    IF \E i \in 1..Len(m) : m[i].k = key
    THEN m[CHOOSE i \in 1..Len(m) : m[i].k = key /\ \A j \in (i + 1)..Len(m) : m[j].k /= key].v
    ELSE default

\* float(x): [ok, f]
PyFloat(v) ==
    IF v.t = "num" THEN [ok |-> TRUE, f |-> FloatOfInt(v.n)]
    ELSE IF v.t = "nan" THEN [ok |-> TRUE, f |-> NaN]
    ELSE IF v.t = "str" /\ v.s = "7" THEN [ok |-> TRUE, f |-> FloatOfInt(7)]
    ELSE IF v.t = "str" /\ v.s = "nan" THEN [ok |-> TRUE, f |-> NaN]
    ELSE [ok |-> FALSE, f |-> Fl(0)]

\* ---------------------------------------------------------------- rubric
DEFAULT_RUBRIC ==
    << [name |-> "soundness", weight |-> 3],
       [name |-> "evidence", weight |-> 2],
       [name |-> "constraints", weight |-> 2],
       [name |-> "safety", weight |-> 1],
       [name |-> "clarity", weight |-> 1] >>

\* -------------------------------------------------------------- judgement
\* the exceptions a run can end with
AttributeError == "AttributeError: object has no attribute 'get'"
FloatError == "ValueError or TypeError: float()"
EmptyMaxError == "ValueError: max() arg is an empty sequence"
CompletionFailure == "CompletionFailure"
LogSinkFailure == "LogSinkFailure"
Judgement(total, per, verdict) == [total |-> total, per_criterion |-> per, verdict |-> verdict]
ParsingFailed == Judgement(Fl(0), <<>>, StrV("Parsing failed"))
Returned(j) == [raised |-> "", j |-> j]
Raised(e) == [raised |-> e, j |-> ParsingFailed]

RECURSIVE ScoreLoop_SkipAbsent(_, _, _, _)
\* (variant: a criterion the parsed object does not have is skipped, with no entry for it)
ScoreLoop_SkipAbsent(data, i, total, per) ==
    IF i > Len(DEFAULT_RUBRIC)
    THEN Returned(Judgement(total, per, DictGet(data.m, "verdict", StrV(""))))
    ELSE LET crit == DEFAULT_RUBRIC[i].name
             weight == DEFAULT_RUBRIC[i].weight
             info == DictGet(data.m, crit, ObjV(<<>>))
         IN  IF \A k \in 1..Len(data.m) : data.m[k].k /= crit
             THEN ScoreLoop_SkipAbsent(data, i + 1, total, per)
             ELSE IF info.t /= "obj" THEN Raised(AttributeError)
             ELSE LET sc == IF \E k \in 1..Len(info.m) : info.m[k].k = "score"
                            THEN PyFloat(DictGet(info.m, "score", NullV))
                            ELSE [ok |-> TRUE, f |-> Fl(0)]
                      note == DictGet(info.m, "note", StrV(""))
                  IN  IF ~sc.ok THEN Raised(FloatError)
                      ELSE ScoreLoop_SkipAbsent(data, i + 1,
                                                FAdd(total, FMulInt(sc.f, weight)),
                                                Append(per, [crit |-> crit, score |-> sc.f,
                                                             weight |-> weight, note |-> note]))

RECURSIVE ScoreLoop(_, _, _, _)
\* the loop over the rubric's criteria in GPTJudge._score_one
ScoreLoop(data, i, total, per) ==
    IF i > Len(DEFAULT_RUBRIC)
    THEN Returned(Judgement(total, per, DictGet(data.m, "verdict", StrV(""))))
    ELSE LET crit == DEFAULT_RUBRIC[i].name
             weight == DEFAULT_RUBRIC[i].weight
             info == DictGet(data.m, crit, ObjV(<<>>))
         IN  IF info.t /= "obj" THEN Raised(AttributeError)
             ELSE LET sc == IF \E k \in 1..Len(info.m) : info.m[k].k = "score"
                            THEN PyFloat(DictGet(info.m, "score", NullV))
                            ELSE [ok |-> TRUE, f |-> Fl(0)]
                      note == DictGet(info.m, "note", StrV(""))
                  IN  IF ~sc.ok THEN Raised(FloatError)
                      ELSE ScoreLoop(data, i + 1, FAdd(total, FMulInt(sc.f, weight)),
                                     Append(per, [crit |-> crit, score |-> sc.f,
                                                  weight |-> weight, note |-> note]))

\* the try block of GPTJudge._score_one: the text between the first "{" and the last "}"
ScoreSlice(resp) == PySlice(resp, Find(resp, LB), RFind(resp, RB) + 1)

\* (variant: the try/except of lines 36-41 is missing)
ScoreOne_NoCatch(resp) ==
    LET r == JsonLoads(ScoreSlice(resp))
    IN  IF ~r.ok THEN Raised("JSONDecodeError")
        ELSE IF r.v.t /= "obj" THEN Raised(AttributeError)
        ELSE ScoreLoop(r.v, 1, Fl(0), <<>>)

\* GPTJudge._score_one on the completion text resp
ScoreOne(resp) ==
    LET r == JsonLoads(ScoreSlice(resp))
    IN  IF ~r.ok THEN Returned(ParsingFailed)
        ELSE IF r.v.t /= "obj" THEN Raised(AttributeError)
        ELSE ScoreLoop(r.v, 1, Fl(0), <<>>)


\* --------------------------------------------------- python dict and max
\* a dict is its items in insertion order: a sequence of [k, v]
DictKeys(d) == [i \in 1..Len(d) |-> d[i].k]
KeySet(d) == {d[i].k : i \in 1..Len(d)}
Lookup(d, k) == d[CHOOSE i \in 1..Len(d) : d[i].k = k].v

\* d[k] = v: a known key keeps its place, a new key goes last
DictSet(d, k, v) ==
    IF k \in KeySet(d)
    THEN [i \in 1..Len(d) |-> IF d[i].k = k THEN [k |-> k, v |-> v] ELSE d[i]]
    ELSE Append(d, [k |-> k, v |-> v])

RECURSIVE DictFromPairsFrom(_, _, _)
DictFromPairsFrom(pairs, i, d) ==
    IF i > Len(pairs) THEN d
    ELSE DictFromPairsFrom(pairs, i + 1, DictSet(d, pairs[i].k, pairs[i].v))

\* (variant: the first pair is dropped)
DictFromPairs_SkipFirst(pairs) == DictFromPairsFrom(pairs, 2, <<>>)

\* dict(results)
DictFromPairs(pairs) == DictFromPairsFrom(pairs, 1, <<>>)

RECURSIVE PyMaxFrom(_, _, _)
\* max(items, key=...): the running best is replaced only by a strictly greater key
PyMaxFrom(keys, i, best) ==
    IF i > Len(keys) THEN best
    ELSE PyMaxFrom(keys, i + 1, IF FGt(keys[i], keys[best]) THEN i ELSE best)

\* position of max() of a non-empty sequence of keys
PyMax(keys) == PyMaxFrom(keys, 2, 1)

\* ----------------------------------------------------------- answer texts
\* the lines the model's completions are made of
LineStartsDash(l) == l \in {"- one", "- two"}
LineHasHashes(l) == l \in {"## Heading", "### Mitigation"}
Keywords == <<"risk", "mitigat", "trade-off", "constraint", "latency", "throughput",
              "security", "safety">>
\* the pieces of a line that read as a keyword in some case, as the line spells them
LineWords(l) ==
    IF l = "Security and safety matter." THEN {"Security", "safety"}
    ELSE IF l = "Risk: low." THEN {"Risk"}
    ELSE IF l = "SECURITY risk, security risk." THEN {"SECURITY", "risk", "security"}
    ELSE IF l = "### Mitigation" THEN {"Mitigat"}
    ELSE {}
\* (variant: the text is searched as written, without lower())
Lower_AsWritten(w) == w

\* str.lower()
Lower(w) ==
    IF w \in {"Security", "SECURITY"} THEN "security"
    ELSE IF w = "Risk" THEN "risk"
    ELSE IF w = "Mitigat" THEN "mitigat"
    ELSE IF w = "Rules" THEN "rules"
    ELSE w
\* the keywords that are substrings of the lowered line
LineKeywords(l) == {Lower(w) : w \in LineWords(l)} \cap {Keywords[k] : k \in 1..Len(Keywords)}
\* a line of "x" that a short line and its newline bring to LongTextLimit characters
Filler == "xxx...x"
FillerLen == LongTextLimit - 6
LineLen(l) ==
    IF l = "- one" THEN 5
    ELSE IF l = "- two" THEN 5
    ELSE IF l = "## Heading" THEN 10
    ELSE IF l = "Security and safety matter." THEN 27
    ELSE IF l = "Risk: low." THEN 10
    ELSE IF l = "plain text, no bullets, no headings, nothing relevant." THEN 54
    ELSE IF l = "SECURITY risk, security risk." THEN 29
    ELSE IF l = "### Mitigation" THEN 14
    ELSE IF l = Filler THEN FillerLen
    ELSE 0

TextA == <<"- one", "- two", "## Heading", "Security and safety matter.">>
TextB == <<"plain text, no bullets, no headings, nothing relevant.">>
AnswerTexts == {TextA, TextB}
CritTexts == {<<"Risk: low.">>}

RECURSIVE SumLens(_, _)
SumLens(text, i) == IF i > Len(text) THEN 0 ELSE LineLen(text[i]) + SumLens(text, i + 1)
\* len(text): the lines and the newlines between them
TextLen(text) == IF text = <<>> THEN 0 ELSE SumLens(text, 1) + Len(text) - 1

\* RulesJudge._score, in half points
RulesScore(text) ==
    LET bullets == Cardinality({i \in 2..Len(text) : LineStartsDash(text[i])})
        heading == IF \E i \in 1..Len(text) : LineHasHashes(text[i]) THEN 2 ELSE 0
        kws == Cardinality({k \in 1..Len(Keywords) :
                              \E i \in 1..Len(text) : Keywords[k] \in LineKeywords(text[i])})
        long == IF TextLen(text) > LongTextLimit THEN 4 ELSE 0
    IN  Fl(2 * bullets + heading + 3 * kws - long)

\* ------------------------------------------------- completions to the judge
ObjOf(crit, v) == <<LB, Str(crit), COLON>> \o v \o <<RB>>
ScoreObj(v) == <<LB, Str("score"), COLON, v, RB>>
ReplyProse == <<WORD>>
ReplyFive == <<WORD>> \o ObjOf("soundness", ScoreObj(Num(5))) \o <<WORD>>
ReplyNotObject == ObjOf("soundness", <<Num(5)>>)
ReplyNaN == ObjOf("soundness", ScoreObj(NANLIT))
ReplyEmptyObj == <<LB, RB>>
MainReplies == {ReplyProse, ReplyFive, ReplyNotObject}

\* ------------------------------------------------------------------ state
VARIABLES
    question,    \* argument of Debate.run (--question)
    args,        \* the command line of cli.run: --agents, --agent-role, --judge
    agents,      \* Debate.agents: the agent ids in insertion order
    rounds,      \* argument of Debate.run
    judgeKind,   \* the strategy judge_factory built: "gpt", "panel" or "rules"
    pc,          \* where Debate.run is
    iter,        \* number of the critique/defend iteration, 0 before the first
    answers,     \* run's local `answers`; each text carries the iteration of the phase
                 \* that returned it (gen, 0 for propose)
    tasks,       \* the tasks of the asyncio.gather in progress, one per agent
    critiques,   \* _critique_round's local `critiques`
    ci,          \* position of _critique_round's nested loops
    inflight,    \* completion calls issued and not yet returned
    nCalls,      \* completion calls issued so far, by operation
    log,         \* the records the log sink has received
    jm,          \* PanelJudge: number of the member that is judging
    ji,          \* GPTJudge.judge: position in answers.items()
    details,     \* GPTJudge.judge's local `details`, as built so far
    panels,      \* PanelJudge.judge's local `panels`
    resp,        \* _score_one's local `resp`: the last completion the judge got
    judged,      \* what judge.judge returned: [winner, details]
    result,      \* what Debate.run returned, <<>> before
    failure      \* the exception that ended the run, "" if none

cfg == <<question, args, agents, rounds, judgeKind>>
jvars == <<jm, ji, details, panels, resp, judged>>
vars == <<question, args, agents, rounds, judgeKind, pc, iter, answers, tasks, critiques, ci,
          inflight, nCalls, log, jm, ji, details, panels, resp, judged, result, failure>>

AgentPool == <<"Optimizer", "Conservative", "Skeptic", "Auditor", "Builder">>
JudgeKinds == {"gpt", "panel", "rules"}
N == Len(agents)
AgentIds == {agents[i] : i \in 1..Len(agents)}
NoJudged == [winner |-> "", details |-> <<>>]
\* Debate built and run by a caller other than cli.run
NoArgs == [agents |-> <<>>, roles |-> <<>>, judge |-> ""]
AQuestion == "Which design should we build?"

Init ==
    /\ question = AQuestion
    /\ args = NoArgs
    /\ \E n \in 0..MaxAgents : agents = SubSeq(AgentPool, 1, n)
    /\ rounds \in 1..MaxRounds
    /\ judgeKind \in JudgeKinds
    /\ pc = "START"
    /\ iter = 0
    /\ answers = <<>>
    /\ tasks = <<>>
    /\ critiques = <<>>
    /\ ci = 1
    /\ inflight = {}
    /\ nCalls = [propose |-> 0, critique |-> 0, defend |-> 0, judge |-> 0]
    /\ log = <<>>
    /\ jm = 1
    /\ ji = 1
    /\ details = <<>>
    /\ panels = <<>>
    /\ resp = <<>>
    /\ judged = NoJudged
    /\ result = <<>>
    /\ failure = ""


\* ------------------------------------------------------------ log records
\* a record of the log sink; its "ts" and "text" fields are left out
\* (variant: the end record is written without its winner)
LogEvent_NoWinner(event, winner) ==
    [kind |-> event, iter |-> iter, agent |-> "", from |-> "", to |-> "", winner |-> ""]

LogEvent(event, winner) ==
    [kind |-> event, iter |-> iter, agent |-> "", from |-> "", to |-> "", winner |-> winner]
\* (variant: the closure reads the loop variable when it runs, after the loop has ended)
LogAgent_LateBinding(phase, aid) ==
    [kind |-> phase, iter |-> iter, agent |-> agents[Len(agents)], from |-> "", to |-> "",
     winner |-> ""]

\* (variant: the record of a defence is written with the phase of a proposal)
LogAgent_ProposePhase(phase, aid) ==
    [kind |-> "propose", iter |-> iter, agent |-> aid, from |-> "", to |-> "", winner |-> ""]

LogAgent(phase, aid) ==
    [kind |-> phase, iter |-> iter, agent |-> aid, from |-> "", to |-> "", winner |-> ""]
LogCritique(critic, target) ==
    [kind |-> "critique", iter |-> iter, agent |-> "", from |-> critic, to |-> target,
     winner |-> ""]

\* ------------------------------------------------------- completion calls
Call(op, aid, target, text, crits) ==
    [op |-> op, iter |-> iter, agent |-> aid, target |-> target, text |-> text,
     crits |-> crits]
Issued(op) == nCalls' = [nCalls EXCEPT ![op] = @ + 1]

\* -------------------------------------------------------- asyncio.gather
\* a completion text with the iteration of the phase that returned it
Tagged(text, gen) == [text |-> text, gen |-> gen]
NoText == Tagged(<<>>, 0)
Pending == [st |-> "pending", val |-> NoText, exc |-> ""]
NewTasks == [i \in 1..N |-> Pending]
Finished(t) == t.st \in {"done", "raised"}
\* (variant: the completion call is awaited, so the tasks run interleaved)
NextTask_AnyPending(i) ==
    /\ i \in 1..Len(tasks)
    /\ tasks[i].st = "pending"

\* the event loop runs the tasks in creation order; a task never yields
NextTask(i) ==
    /\ i \in 1..Len(tasks)
    /\ tasks[i].st = "pending"
    /\ \A j \in 1..(i - 1) : Finished(tasks[j])
\* (variant: the fan-in resumes as soon as one task has finished)
AllFinished_Any == \E i \in 1..Len(tasks) : tasks[i].st \in {"done", "raised"}
AllFinished == \A i \in 1..Len(tasks) : Finished(tasks[i])
\* (variant: gather(return_exceptions=True), and the exceptions among the results are not looked at)
AnyRaised_Never == FALSE

AnyRaised == \E i \in 1..Len(tasks) : tasks[i].st = "raised"
FirstRaised == CHOOSE i \in 1..Len(tasks) :
                   tasks[i].st = "raised" /\ \A j \in 1..(i - 1) : tasks[j].st /= "raised"
\* (variant: the results are collected as the tasks are popped off a stack)
GatherResults_Reversed ==
    [i \in 1..Len(tasks) |-> [k |-> agents[Len(tasks) + 1 - i],
                              v |-> tasks[Len(tasks) + 1 - i].val]]

\* the list gather returns: the tasks' (aid, text) in the order of the tasks
GatherResults == [i \in 1..Len(tasks) |-> [k |-> agents[i], v |-> tasks[i].val]]

\* (variant: the defended answers are dropped, line 64 without its assignment)
JoinedAnswers_Stale == IF answers = <<>> THEN DictFromPairs(GatherResults) ELSE answers

\* `answers = await ...`: the gathered results become the answers
JoinedAnswers == DictFromPairs(GatherResults)

Fail(kind) ==
    /\ pc' = "FAILED"
    /\ failure' = kind

\* ------------------------------------------------------------- Debate.run
\* line 60: the start record
Start ==
    /\ pc = "START"
    /\ \/ /\ log' = Append(log, LogEvent("start", ""))
          /\ pc' = "PROPOSE"
          /\ tasks' = NewTasks
          /\ UNCHANGED failure
       \/ /\ Fail(LogSinkFailure)
          /\ UNCHANGED <<log, tasks>>
    /\ UNCHANGED <<cfg, iter, answers, critiques, ci, inflight, nCalls, jvars,
                   result>>

\* _propose_round.run up to the completion call
ProposeIssue ==
    /\ pc = "PROPOSE"
    /\ \E i \in 1..Len(tasks) :
         /\ NextTask(i)
         /\ tasks' = [tasks EXCEPT ![i].st = "running"]
         /\ inflight' = inflight \cup {Call("propose", agents[i], "", NoText, <<>>)}
    /\ Issued("propose")
    /\ UNCHANGED <<cfg, pc, iter, answers, critiques, ci, log, jvars, result,
                   failure>>

\* the rest of a gathered task: the call returns or raises, then the record is logged
TaskReturn(phase) ==
    /\ pc = phase
    /\ \E i \in 1..Len(tasks) :
         /\ tasks[i].st = "running"
         /\ \/ \E text \in AnswerTexts :
                 /\ tasks' = [tasks EXCEPT ![i] = [st |-> "done", val |-> Tagged(text, iter), exc |-> ""]]
                 /\ log' = Append(log, LogAgent(IF phase = "PROPOSE" THEN "propose"
                                                ELSE "defend", agents[i]))
            \/ /\ tasks' = [tasks EXCEPT ![i] = [st |-> "raised", val |-> NoText,
                                                 exc |-> LogSinkFailure]]
               /\ UNCHANGED log
            \/ /\ tasks' = [tasks EXCEPT ![i] = [st |-> "raised", val |-> NoText,
                                                 exc |-> CompletionFailure]]
               /\ UNCHANGED log
         /\ inflight' = {c \in inflight : c.agent /= agents[i]}
    /\ UNCHANGED <<cfg, pc, iter, answers, critiques, ci, nCalls, jvars, result,
                   failure>>

ProposeReturn == TaskReturn("PROPOSE")

\* (variant: the `continue` of line 38 is missing)
CritiquePairs_NoSkip(ans) ==
    LET n == Len(ans)
        m == Len(agents)
    IN  [p \in 1..(n * m) |-> [target |-> ans[((p - 1) \div m) + 1].k,
                               critic |-> agents[((p - 1) % m) + 1]]]

\* the critic/target pairs in the order of _critique_round's nested loops
CritiquePairs(ans) ==
    LET n == Len(ans)
        m == Len(agents)
        all == [p \in 1..(n * m) |-> [target |-> ans[((p - 1) \div m) + 1].k,
                                      critic |-> agents[((p - 1) % m) + 1]]]
    IN  SelectSeq(all, LAMBDA pr : pr.critic /= pr.target)

\* (variant: the critique lists are created once and kept over the iterations)
FreshCritiques_Kept ==
    IF critiques = <<>> THEN [i \in 1..N |-> [k |-> agents[i], v |-> <<>>]] ELSE critiques

\* line 34
FreshCritiques == [i \in 1..N |-> [k |-> agents[i], v |-> <<>>]]

\* (variant: the loop of line 62 runs one iteration too few)
EnterAfter_OneLess(k) ==
    IF k + 1 < rounds
    THEN /\ pc' = "CRITIQUE"
         /\ iter' = k + 1
         /\ critiques' = [i \in 1..N |-> [k |-> agents[i], v |-> <<>>]]
         /\ ci' = 1
    ELSE /\ pc' = "JUDGE"
         /\ critiques' = <<>>
         /\ UNCHANGED <<iter, ci>>

\* what follows a returned answers map: the next iteration of line 62, or line 65
\* (the critique lists of the last iteration are never read again)
EnterAfter(k) ==
    IF k < rounds
    THEN /\ pc' = "CRITIQUE"
         /\ iter' = k + 1
         /\ critiques' = FreshCritiques
         /\ ci' = 1
    ELSE /\ pc' = "JUDGE"
         /\ critiques' = <<>>
         /\ UNCHANGED <<iter, ci>>

\* (variant: a task group, which cancels the siblings of a task that raised)
Join_FailFast(phase) ==
    /\ pc = phase
    /\ \/ /\ AnyRaised
          /\ Fail(tasks[FirstRaised].exc)
          /\ UNCHANGED <<iter, answers, critiques, ci>>
       \/ /\ AllFinished
          /\ ~AnyRaised
          /\ answers' = JoinedAnswers
          /\ EnterAfter(iter)
          /\ UNCHANGED failure
    /\ UNCHANGED <<cfg, tasks, inflight, nCalls, log, jvars, result>>

\* the fan-in of a gather: the first exception is raised, else dict(results)
Join(phase) ==
    /\ pc = phase
    /\ AllFinished
    /\ \/ /\ AnyRaised
          /\ Fail(tasks[FirstRaised].exc)
          /\ UNCHANGED <<iter, answers, critiques, ci>>
       \/ /\ ~AnyRaised
          /\ answers' = JoinedAnswers
          /\ EnterAfter(iter)
          /\ UNCHANGED failure
    /\ UNCHANGED <<cfg, tasks, inflight, nCalls, log, jvars, result>>

ProposeJoin == Join("PROPOSE")

\* _critique_round up to the completion call of the pair at ci
CritiqueIssue ==
    /\ pc = "CRITIQUE"
    /\ inflight = {}
    /\ ci <= Len(CritiquePairs(answers))
    /\ LET pr == CritiquePairs(answers)[ci]
       IN  inflight' = {Call("critique", pr.critic, pr.target, Lookup(answers, pr.target),
                             <<>>)}
    /\ Issued("critique")
    /\ UNCHANGED <<cfg, pc, iter, answers, tasks, critiques, ci, log, jvars, result,
                   failure>>

\* lines 39-41: the critique returns, is appended to its target's list and logged
CritiqueReturn ==
    /\ pc = "CRITIQUE"
    /\ \E c \in inflight :
         \/ \E text \in CritTexts :
              /\ critiques' = DictSet(critiques, c.target,
                                  Append(Lookup(critiques, c.target),
                                         [author |-> c.agent, text |-> text, iter |-> iter]))
              /\ \/ /\ log' = Append(log, LogCritique(c.agent, c.target))
                    /\ ci' = ci + 1
                    /\ UNCHANGED <<pc, failure>>
                 \/ /\ Fail(LogSinkFailure)
                    /\ UNCHANGED <<log, ci>>
         \/ /\ Fail(CompletionFailure)
            /\ UNCHANGED <<critiques, log, ci>>
    /\ inflight' = {}
    /\ UNCHANGED <<cfg, iter, answers, tasks, nCalls, jvars, result>>

\* line 42 and line 64 up to the gather
CritiqueDone ==
    /\ pc = "CRITIQUE"
    /\ inflight = {}
    /\ ci > Len(CritiquePairs(answers))
    /\ pc' = "DEFEND"
    /\ tasks' = NewTasks
    /\ UNCHANGED <<cfg, iter, answers, critiques, ci, inflight, nCalls, log, jvars,
                   result, failure>>

\* _defend_round.run up to the completion call
DefendIssue ==
    /\ pc = "DEFEND"
    /\ \E i \in 1..Len(tasks) :
         /\ NextTask(i)
         /\ tasks' = [tasks EXCEPT ![i].st = "running"]
         /\ inflight' = inflight \cup {Call("defend", agents[i], "", Lookup(answers, agents[i]),
                                            Lookup(critiques, agents[i]))}
    /\ Issued("defend")
    /\ UNCHANGED <<cfg, pc, iter, answers, critiques, ci, log, jvars, result,
                   failure>>

DefendReturn == TaskReturn("DEFEND")
DefendJoin == Join("DEFEND")


\* ------------------------------------------------------------- the judges
Totals(d) == [i \in 1..Len(d) |-> d[i].v.total]
\* (variant: a hand-written argmax that starts from best = 0 and no winner)
WinnerOf_ZeroInit(d) ==
    IF \E i \in 1..Len(d) : FGt(d[i].v.total, Fl(0)) THEN d[PyMax(Totals(d))].k ELSE ""

\* max(details.items(), key=lambda kv: kv[1].total)[0], of a non-empty details
WinnerOf(d) == d[PyMax(Totals(d))].k

\* RulesJudge.judge, lines 94-97
RulesDetails(ans) ==
    [i \in 1..Len(ans) |->
        [k |-> ans[i].k, v |-> Judgement(RulesScore(ans[i].v.text), <<>>,
                                       StrV("Heuristic score"))]]

\* RulesJudge.judge: no completion call; max() of no item raises
JudgeRules ==
    /\ pc = "JUDGE"
    /\ judgeKind = "rules"
    /\ \/ /\ answers /= <<>>
          /\ judged' = [winner |-> WinnerOf(RulesDetails(answers)),
                        details |-> RulesDetails(answers)]
          /\ pc' = "SYNTHESIZE"
          /\ UNCHANGED failure
       \/ /\ answers = <<>>
          /\ Fail(EmptyMaxError)
          /\ UNCHANGED judged
    /\ UNCHANGED <<cfg, iter, answers, tasks, critiques, ci, inflight, nCalls, log,
                   jm, ji, details, panels, resp, result>>

\* GPTJudge._score_one up to the completion call, for the ji-th item of answers
JudgeIssue ==
    /\ pc = "JUDGE"
    /\ judgeKind \in {"gpt", "panel"}
    /\ inflight = {}
    /\ ji <= Len(answers)
    /\ inflight' = {Call("judge", answers[ji].k, "", answers[ji].v, <<>>)}
    /\ Issued("judge")
    /\ UNCHANGED <<cfg, pc, iter, answers, tasks, critiques, ci, log, jvars, result,
                   failure>>

\* the rest of GPTJudge._score_one: the completion is parsed and scored
JudgeReturn(replies) ==
    /\ pc = "JUDGE"
    /\ \E c \in inflight :
         \/ \E r \in replies :
              /\ resp' = r
              /\ IF ScoreOne(r).raised = ""
                 THEN /\ details' = DictSet(details, c.agent, ScoreOne(r).j)
                      /\ ji' = ji + 1
                      /\ UNCHANGED <<pc, failure>>
                 ELSE /\ Fail(ScoreOne(r).raised)
                      /\ UNCHANGED <<details, ji>>
         \/ /\ Fail(CompletionFailure)
            /\ UNCHANGED <<details, ji, resp>>
    /\ inflight' = {}
    /\ UNCHANGED <<cfg, iter, answers, tasks, critiques, ci, nCalls, log, jm,
                   panels, judged, result>>

RECURSIVE AggFrom(_, _, _, _)
\* lines 71-73 for one agent: the totals of the members' judgements, added in order
AggFrom(ps, aid, i, acc) ==
    IF i > Len(ps) THEN acc
    ELSE AggFrom(ps, aid, i + 1, FAdd(acc, Lookup(ps[i].d, aid).total))

\* lines 70-73: agg, in the order of answers
PanelAgg(ps, ans) == [i \in 1..Len(ans) |-> [k |-> ans[i].k, v |-> AggFrom(ps, ans[i].k, 1, Fl(0))]]
AggValues(agg) == [i \in 1..Len(agg) |-> agg[i].v]
\* line 74
PanelWinner(ps, ans) == PanelAgg(ps, ans)[PyMax(AggValues(PanelAgg(ps, ans)))].k

\* lines 55-56 of one GPTJudge.judge; for a panel, lines 68-69 and then 70-75
JudgeMemberDone ==
    /\ pc = "JUDGE"
    /\ judgeKind \in {"gpt", "panel"}
    /\ inflight = {}
    /\ ji > Len(answers)
    /\ \/ /\ details = <<>>
          /\ Fail(EmptyMaxError)
          /\ UNCHANGED <<jm, ji, details, panels, judged>>
       \/ /\ details /= <<>>
          /\ judgeKind = "gpt"
          /\ judged' = [winner |-> WinnerOf(details), details |-> details]
          /\ pc' = "SYNTHESIZE"
          /\ UNCHANGED <<jm, ji, details, panels, failure>>
       \/ /\ details /= <<>>
          /\ judgeKind = "panel"
          /\ jm < PanelN
          /\ panels' = Append(panels, [w |-> WinnerOf(details), d |-> details])
          /\ jm' = jm + 1
          /\ ji' = 1
          /\ details' = <<>>
          /\ UNCHANGED <<pc, judged, failure>>
       \/ /\ details /= <<>>
          /\ judgeKind = "panel"
          /\ jm >= PanelN
          /\ panels' = Append(panels, [w |-> WinnerOf(details), d |-> details])
          /\ judged' = [winner |-> PanelWinner(panels', answers), details |-> panels'[1].d]
          /\ pc' = "SYNTHESIZE"
          /\ UNCHANGED <<jm, ji, details, failure>>
    /\ UNCHANGED <<cfg, iter, answers, tasks, critiques, ci, inflight, nCalls, log,
                   resp, result>>

\* ------------------------------------------------------------- synthesis
Heading(aid) == [hd |-> TRUE, s |-> aid]
Plain(l) == [hd |-> FALSE, s |-> l]
\* f"### {aid}\n{text}\n", as the lines str.split("\n") gives
SynthPart(aid, text) ==
    <<Heading(aid)>> \o (IF text = <<>> THEN <<Plain("")>>
                         ELSE [i \in 1..Len(text) |-> Plain(text[i])]) \o <<Plain("")>>

RECURSIVE SynthFrom(_, _)
SynthFrom(ans, i) ==
    IF i > Len(ans) THEN <<>> ELSE SynthPart(ans[i].k, ans[i].v.text) \o SynthFrom(ans, i + 1)

\* (variant: the sections come sorted by agent id)
Synthesize_Sorted(ans) ==
    LET rank(a) == CASE a = "Auditor" -> 1 [] a = "Builder" -> 2 [] a = "Conservative" -> 3
                     [] a = "Optimizer" -> 4 [] OTHER -> 5
        at(i) == CHOOSE j \in 1..Len(ans) :
                   Cardinality({q \in 1..Len(ans) : rank(ans[q].k) < rank(ans[j].k)}) = i - 1
    IN  SynthFrom([i \in 1..Len(ans) |-> ans[at(i)]], 1)

\* Debate._synthesize: "\n".join(parts), as lines
Synthesize(ans) == SynthFrom(ans, 1)

\* lines 66-69: the synthesis, the end record, the result
Finish ==
    /\ pc = "SYNTHESIZE"
    /\ \/ /\ log' = Append(log, LogEvent("end", judged.winner))
          /\ result' = <<[winner_id |-> judged.winner,
                          final_synthesis |-> Synthesize(answers),
                          answers |-> answers,
                          judge_details |-> judged.details]>>
          /\ pc' = "END"
          /\ UNCHANGED failure
       \/ /\ Fail(LogSinkFailure)
          /\ UNCHANGED <<log, result>>
    /\ UNCHANGED <<cfg, iter, answers, tasks, critiques, ci, inflight, nCalls,
                   jvars>>

\* ---------------------------------------------------------- specifications
Next ==
    \/ Start
    \/ ProposeIssue
    \/ ProposeReturn
    \/ ProposeJoin
    \/ CritiqueIssue
    \/ CritiqueReturn
    \/ CritiqueDone
    \/ DefendIssue
    \/ DefendReturn
    \/ DefendJoin
    \/ JudgeRules
    \/ JudgeIssue
    \/ JudgeReturn(MainReplies)
    \/ JudgeMemberDone
    \/ Finish

Spec == Init /\ [][Next]_vars

\* Debate.run with the single-model or the heuristic judge: what run synthesizes and logs
\* does not depend on how the judge came to its winner, and a panel multiplies the states
InitRun == Init /\ judgeKind /= "panel"

SpecRun == InitRun /\ [][Next]_vars

\* the same runs with progress: the event loop resumes whatever is ready to run, and a
\* blocking call or an append that was started comes back (returning or raising)
SpecRunFair == SpecRun /\ WF_vars(Next)

\* ------------------------------------------------------------------ cli.run
\* the ids of config/agents.yaml
Registry == {"Optimizer", "Conservative", "Skeptic"}
BadParameter == "typer.BadParameter"
UnknownJudgeKind == "ValueError: Unknown judge kind"
AssertionError == "AssertionError: LLM required"
ConfigErrors == {BadParameter, UnknownJudgeKind, AssertionError}

\* str.strip() of a piece of --agents
Strip(f) ==
    IF f = " Conservative" THEN "Conservative"
    ELSE IF f = " " THEN ""
    ELSE f
\* line 53: the pieces between the commas, stripped, the empty ones dropped
ParseAgentIds(fields) ==
    SelectSeq([i \in 1..Len(fields) |-> Strip(fields[i])], LAMBDA x : x /= "")

\* a role is the pieces of its text, ":" being a piece of its own
HasColon(role) == \E i \in 1..Len(role) : role[i] = ":"
\* role.split(":", 1)[0]
RoleName(role) == IF role[1] = ":" THEN "" ELSE role[1]

Built(err, chosen) == [err |-> err, chosen |-> chosen]
RECURSIVE BuildRoles(_, _, _)
\* build_agents, lines 28-32
BuildRoles(roles, i, chosen) ==
    IF i > Len(roles) THEN Built("", chosen)
    ELSE IF ~HasColon(roles[i]) THEN Built(BadParameter, chosen)
    ELSE BuildRoles(roles, i + 1, DictSet(chosen, RoleName(roles[i]), "role"))

RECURSIVE BuildIds_SkipUnknown(_, _, _)
\* (variant: an id the registry does not have is skipped)
BuildIds_SkipUnknown(ids, i, chosen) ==
    IF i > Len(ids) THEN Built("", chosen)
    ELSE IF ids[i] \notin Registry THEN BuildIds_SkipUnknown(ids, i + 1, chosen)
    ELSE BuildIds_SkipUnknown(ids, i + 1, DictSet(chosen, ids[i], "registry"))

RECURSIVE BuildIds(_, _, _)
\* build_agents, lines 22-26
BuildIds(ids, i, chosen) ==
    IF i > Len(ids) THEN Built("", chosen)
    ELSE IF ids[i] \notin Registry THEN Built(BadParameter, chosen)
    ELSE BuildIds(ids, i + 1, DictSet(chosen, ids[i], "registry"))

\* build_agents: the registry ids first, then the ad-hoc roles
BuildAgents(ids, roles) ==
    IF BuildIds(ids, 1, <<>>).err /= "" THEN BuildIds(ids, 1, <<>>)
    ELSE BuildRoles(roles, 1, BuildIds(ids, 1, <<>>).chosen)

\* lines 56-58: the judge's capability, "None" when the kind is not gpt or panel
JudgeLlm(kind) == IF Lower(kind) \in {"gpt", "panel"} THEN "llm" ELSE "None"

\* judge_factory
JudgeFactory(kind, llm) ==
    LET k == IF kind = "" THEN "gpt" ELSE Lower(kind)
    IN  IF k \in {"gpt", "panel"}
        THEN IF llm = "None" THEN [err |-> AssertionError, kind |-> ""]
             ELSE [err |-> "", kind |-> k]
        ELSE IF k = "rules" THEN [err |-> "", kind |-> k]
        ELSE [err |-> UnknownJudgeKind, kind |-> ""]

\* cli.run, lines 51-65, up to the call of Debate.run
CliRun ==
    /\ pc = "CLI"
    /\ LET built == BuildAgents(ParseAgentIds(args.agents), args.roles)
           jf == JudgeFactory(args.judge, JudgeLlm(args.judge))
       IN  \/ /\ built.err /= ""
              /\ Fail(built.err)
              /\ UNCHANGED <<agents, judgeKind>>
           \/ /\ built.err = ""
              /\ jf.err /= ""
              /\ Fail(jf.err)
              /\ UNCHANGED <<agents, judgeKind>>
           \/ /\ built.err = ""
              /\ jf.err = ""
              /\ \/ /\ agents' = DictKeys(built.chosen)
                    /\ judgeKind' = jf.kind
                    /\ pc' = "START"
                    /\ UNCHANGED failure
                 \/ /\ Fail(LogSinkFailure)
                    /\ UNCHANGED <<agents, judgeKind>>
    /\ UNCHANGED <<question, args, rounds, iter, answers, tasks, critiques, ci, inflight,
                   nCalls, log, jvars, result>>

\* the --agents texts, split at their commas
AgentsArgs ==
    { <<"">>, <<"Optimizer">>, <<"Optimizer", " Conservative">>,
      <<"Optimizer", " ", "Skeptic">>, <<"Optimizer", "Optimizer">>,
      <<"Optimizer", "Nobody">> }
RoleArgs ==
    { <<>>, << <<"Auditor", ":", " audits every claim">> >>,
      << <<"Optimizer", ":", " another prompt">> >>,
      << <<"Auditor audits every claim">> >> }
JudgeArgs == {"gpt", "rules", "Rules", "vote", ""}
Questions == {"", AQuestion}

InitCli ==
    /\ question \in Questions
    /\ args \in [agents : AgentsArgs, roles : RoleArgs, judge : JudgeArgs]
    /\ agents = <<>>
    /\ rounds \in 1..MaxRounds
    /\ judgeKind = ""
    /\ pc = "CLI"
    /\ iter = 0
    /\ answers = <<>>
    /\ tasks = <<>>
    /\ critiques = <<>>
    /\ ci = 1
    /\ inflight = {}
    /\ nCalls = [propose |-> 0, critique |-> 0, defend |-> 0, judge |-> 0]
    /\ log = <<>>
    /\ jm = 1
    /\ ji = 1
    /\ details = <<>>
    /\ panels = <<>>
    /\ resp = <<>>
    /\ judged = NoJudged
    /\ result = <<>>
    /\ failure = ""

NextCli ==
    \/ CliRun
    \/ Next

SpecCli == InitCli /\ [][NextCli]_vars


\* ------------------------------------------- judge.judge(answers) on its own
\* the completions the judge harness draws from
JudgeReplies == {ReplyProse, ReplyFive, ReplyNaN}

\* the state in which judge.judge(answers) is called directly on an answers map
InitCall(n, kind, ans) ==
    /\ question = AQuestion
    /\ args = NoArgs
    /\ agents = SubSeq(AgentPool, 1, n)
    /\ rounds = 1
    /\ judgeKind = kind
    /\ pc = "JUDGE"
    /\ iter = 1
    /\ answers = ans
    /\ tasks = <<>>
    /\ critiques = <<>>
    /\ ci = 1
    /\ inflight = {}
    /\ nCalls = [propose |-> 0, critique |-> 0, defend |-> 0, judge |-> 0]
    /\ log = <<>>
    /\ jm = 1
    /\ ji = 1
    /\ details = <<>>
    /\ panels = <<>>
    /\ resp = <<>>
    /\ judged = NoJudged
    /\ result = <<>>
    /\ failure = ""

\* the heuristic judge reads the answers; the model-based judges only pass them on
InitJudge ==
    \E n \in 0..MaxAgents, kind \in JudgeKinds :
      \E texts \in [1..n -> AnswerTexts] :
        /\ kind /= "rules" => \A i \in 1..n : texts[i] = TextB
        /\ InitCall(n, kind, [i \in 1..n |-> [k |-> AgentPool[i], v |-> Tagged(texts[i], 1)]])

NextJudge ==
    \/ JudgeRules
    \/ JudgeIssue
    \/ JudgeReturn(JudgeReplies)
    \/ JudgeMemberDone

SpecJudge == InitJudge /\ [][NextJudge]_vars

\* ------------------------------------------ RulesJudge.judge on its own
RulesLines ==
    {"- one", "- two", "## Heading", "Security and safety matter.", "Risk: low.",
     "plain text, no bullets, no headings, nothing relevant.",
     "SECURITY risk, security risk.", "### Mitigation", Filler}
\* every text of at most MaxLines of these lines
RulesTexts == UNION {[1..n -> RulesLines] : n \in 0..MaxLines}

\* no answer, one answer of any text, or two answers of the texts of the debate
InitRules ==
    \/ InitCall(0, "rules", <<>>)
    \/ \E t \in RulesTexts :
         InitCall(1, "rules", <<[k |-> AgentPool[1], v |-> Tagged(t, 1)]>>)
    \/ \E ta \in AnswerTexts, tb \in AnswerTexts :
         InitCall(2, "rules", <<[k |-> AgentPool[1], v |-> Tagged(ta, 1)],
                               [k |-> AgentPool[2], v |-> Tagged(tb, 1)]>>)

NextRules == JudgeRules

SpecRules == InitRules /\ [][NextRules]_vars

\* ------------------------------------------ GPTJudge._score_one on its own
Concat3(a, b, c) == a \o b \o c
Affixes == {<<>>, <<WORD>>, <<LB>>, <<RB>>}
AllTen ==
    <<LB, Str("soundness"), COLON>> \o ScoreObj(Num(10)) \o
    <<COMMA, Str("evidence"), COLON>> \o ScoreObj(Num(10)) \o
    <<COMMA, Str("constraints"), COLON>> \o ScoreObj(Num(10)) \o
    <<COMMA, Str("safety"), COLON>> \o ScoreObj(Num(10)) \o
    <<COMMA, Str("clarity"), COLON>> \o ScoreObj(Num(10)) \o
    <<COMMA, Str("verdict"), COLON, Str("A wins"), RB>>
Bodies ==
    { <<>>,
      <<WORD>>,
      <<LB, RB>>,
      ObjOf("soundness", ScoreObj(Num(5))),
      ObjOf("soundness", ScoreObj(Str("7"))),
      ObjOf("soundness", ScoreObj(Str("good"))),
      ObjOf("soundness", ScoreObj(NULL)),
      ObjOf("soundness", ScoreObj(NANLIT)),
      ObjOf("soundness", <<Num(5)>>),
      ObjOf("clarity", <<LB, Str("note"), COLON, Str("fine"), RB>>),
      ObjOf("extra", ScoreObj(Num(9))),
      <<LB, Str("soundness"), COLON>> \o ScoreObj(Num(5)) \o
          <<COMMA, Str("extra"), COLON>> \o ScoreObj(Num(9)) \o <<RB>>,
      ObjOf("soundness", ScoreObj(Num(31))),
      ObjOf("soundness", ScoreObj(Num(0 - 1))),
      <<LB, Str("verdict"), COLON, Str("A wins"), RB>>,
      <<LB, Str("safety"), COLON>> \o ScoreObj(Num(2)) \o
          <<COMMA, Str("safety"), COLON>> \o ScoreObj(Num(4)) \o <<RB>>,
      <<LB, Str("soundness"), COLON, RB>>,
      <<LB, Str("soundness"), LB, RB, RB>>,
      <<LB, Str("soundness"), COLON, LB, RB, COMMA, RB>>,
      <<LB, WORD, RB>>,
      AllTen }
ScoreInputs == {Concat3(a, b, c) : a \in Affixes, b \in Bodies, c \in Affixes}

InitScore ==
    InitCall(1, "gpt", <<[k |-> AgentPool[1], v |-> Tagged(TextB, 1)]>>)

NextScore ==
    \/ JudgeIssue
    \/ JudgeReturn(ScoreInputs)

SpecScore == InitScore /\ [][NextScore]_vars


\* ================================================================ claims
OpPhase(op) ==
    IF op = "propose" THEN "PROPOSE"
    ELSE IF op = "critique" THEN "CRITIQUE"
    ELSE IF op = "defend" THEN "DEFEND"
    ELSE "JUDGE"

\* the place of a phase in START, PROPOSE, (CRITIQUE, DEFEND) x rounds, JUDGE, SYNTHESIZE, END
RankOf(p, k) ==
    IF p = "START" THEN 0
    ELSE IF p = "PROPOSE" THEN 1
    ELSE IF p = "CRITIQUE" THEN 2 * k
    ELSE IF p = "DEFEND" THEN 2 * k + 1
    ELSE IF p = "JUDGE" THEN 2 * rounds + 2
    ELSE IF p = "SYNTHESIZE" THEN 2 * rounds + 3
    ELSE IF p = "END" THEN 2 * rounds + 4
    ELSE -1

Ops == {"propose", "critique", "defend", "judge"}

C1_CallsInPhase ==
    /\ \A c \in inflight : OpPhase(c.op) = pc /\ c.iter = iter
    /\ pc = "JUDGE" => iter = rounds /\ \A i \in 1..Len(answers) : answers[i].v.gen = rounds
    /\ nCalls.judge > 0 => pc \in {"JUDGE", "SYNTHESIZE", "END", "FAILED"}

C1_Step ==
    /\ pc' /= pc =>
         \/ pc' = "FAILED"
         \/ /\ RankOf(pc', iter') = RankOf(pc, iter) + 1
            /\ inflight = {}
            /\ \A i \in 1..Len(tasks) : tasks[i].st \in {"done", "raised"}
    /\ pc' = pc => iter' = iter
    /\ \A op \in Ops : nCalls'[op] /= nCalls[op] =>
         /\ pc = OpPhase(op)
         /\ pc' = pc
         /\ \A c \in inflight : c.op = op /\ c.iter = iter

\* C1: the phases follow START, PROPOSE, (CRITIQUE, DEFEND) x rounds, JUDGE, SYNTHESIZE,
\* END: every step that changes the phase goes to the next phase of that order (or ends
\* the run with a failure) and is taken only when no call is in flight and every gathered
\* task has finished; a call is issued only in its own phase and iteration; the judge is
\* reached only with the answers of the last defend phase.
C1_PhaseOrder == [](C1_CallsInPhase) /\ [][C1_Step]_vars

C1_Witness ==
    /\ pc = "END"
    /\ rounds >= 2
    /\ N >= 2
    /\ nCalls.judge > 0

\* C2: never more than N propose, rounds*N*(N-1) critique and rounds*N defend calls are
\* issued, and a run that gets to the judge has issued exactly that many and holds an
\* answers map of N entries.
C2_CallCounts ==
    /\ nCalls.propose <= N
    /\ nCalls.critique <= rounds * N * (N - 1)
    /\ nCalls.defend <= rounds * N
    /\ pc \in {"JUDGE", "SYNTHESIZE", "END"} =>
         /\ nCalls.propose = N
         /\ nCalls.critique = rounds * N * (N - 1)
         /\ nCalls.defend = rounds * N
         /\ Len(answers) = N

C2_Witness ==
    /\ pc = "END"
    /\ N >= 3
    /\ rounds >= 2
    /\ nCalls.critique >= 12

ExactKeys(d) ==
    /\ Len(d) = N
    /\ \A i \in 1..N : Cardinality({j \in 1..Len(d) : d[j].k = agents[i]}) = 1

\* C3: from the end of the propose phase on, and after every defend phase, the answers map
\* has exactly one entry per configured agent and no other entry; an answers map that is
\* not empty is never partial, also in a run that failed.
C3_AnswersComplete ==
    /\ pc \in {"CRITIQUE", "DEFEND", "JUDGE", "SYNTHESIZE", "END"} => ExactKeys(answers)
    /\ answers /= <<>> => ExactKeys(answers)

C3_Witness ==
    /\ pc = "DEFEND"
    /\ iter = 2
    /\ N = 3
    /\ \E i, j \in 1..Len(tasks) : tasks[i].st = "done" /\ tasks[j].st = "pending"
    /\ \A i \in 1..Len(answers) : answers[i].v.gen = 1

\* C4: no critique list holds a critique authored by its own target, and no critique call
\* is issued with critic = target.
C4_NoSelfCritique ==
    /\ \A i \in 1..Len(critiques) : \A e \in 1..Len(critiques[i].v) :
         critiques[i].v[e].author /= critiques[i].k
    /\ \A c \in inflight :
         /\ c.op = "critique" => c.agent /= c.target
         /\ c.op = "defend" => \A e \in 1..Len(c.crits) : c.crits[e].author /= c.agent

C4_Witness ==
    /\ pc = "DEFEND"
    /\ N = 3
    /\ \A i \in 1..Len(critiques) : Len(critiques[i].v) = 2

OthersInOrder(a) == SelectSeq(agents, LAMBDA x : x /= a)

\* C5: when a defend call of iteration k is in flight, all N*(N-1) critique calls of
\* iteration k have been issued and have returned (each has its log record, none is in
\* flight), and the call carries exactly the N-1 critiques of iteration k addressed to its
\* agent, one per other agent, in the agents' insertion order.
C5_DefendAfterCritiques ==
    \A c \in inflight : c.op = "defend" =>
      /\ nCalls.critique = c.iter * N * (N - 1)
      /\ \A c2 \in inflight : c2.op = "defend"
      /\ Cardinality({i \in 1..Len(log) : log[i].kind = "critique" /\ log[i].iter = c.iter})
           = N * (N - 1)
      /\ [j \in 1..Len(c.crits) |-> c.crits[j].author] = OthersInOrder(c.agent)
      /\ \A j \in 1..Len(c.crits) : c.crits[j].iter = c.iter

C5_Witness ==
    \E c \in inflight :
      /\ c.op = "defend"
      /\ c.iter = 2
      /\ N = 3
      /\ Len(c.crits) = 2

\* C6: a critique call of iteration k is given the target's entry of the answers map that
\* the preceding phase returned (propose for k = 1, the defend phase of k-1 else), and a
\* defend call of iteration k is given its own agent's entry of that same map.
C6_CurrentAnswers ==
    \A c \in inflight :
      /\ c.op = "critique" =>
           /\ c.text.gen = c.iter - 1
           /\ \E i \in 1..Len(answers) : answers[i].k = c.target /\ answers[i].v = c.text
      /\ c.op = "defend" =>
           /\ c.text.gen = c.iter - 1
           /\ \E i \in 1..Len(answers) : answers[i].k = c.agent /\ answers[i].v = c.text

C6_Witness ==
    \E c \in inflight :
      /\ c.op = "critique"
      /\ c.iter = 2
      /\ c.text = Tagged(TextA, 1)
      /\ \E i \in 1..Len(answers) : answers[i].k /= c.target /\ answers[i].v.text = TextB

RECURSIVE C7_Sum(_, _, _)
C7_Sum(ps, i, aid) ==
    IF i = 0 THEN Fl(0)
    ELSE LET t == ps[i].d[CHOOSE j \in 1..Len(ps[i].d) : ps[i].d[j].k = aid].v.total
             rest == C7_Sum(ps, i - 1, aid)
         IN  IF t.nan \/ rest.nan THEN NaN ELSE Fl(rest.h + t.h)

\* the total that decides for the i-th agent of the answers map
C7_Deciding(i) ==
    IF judgeKind = "panel" THEN C7_Sum(panels, Len(panels), answers[i].k)
    ELSE judged.details[i].v.total

\* C7: when a judge has returned, the winner's deciding total is maximal (no other agent
\* has a total that is a number while the winner's is not, or that is greater), and no
\* agent before the winner in the answers map has a total as high.
C7_WinnerIsFirstMax ==
    pc = "SYNTHESIZE" =>
      \E w \in 1..Len(answers) :
        /\ answers[w].k = judged.winner
        /\ \A j \in 1..Len(answers) :
             ~C7_Deciding(j).nan =>
               /\ ~C7_Deciding(w).nan
               /\ C7_Deciding(w).h >= C7_Deciding(j).h
               /\ j < w => C7_Deciding(j).h < C7_Deciding(w).h

\* C8: the winner of a returned result and of every `end` record is a configured agent id.
C8_WinnerIsAgent ==
    /\ \A i \in 1..Len(result) : \E a \in 1..Len(agents) : agents[a] = result[i].winner_id
    /\ \A i \in 1..Len(log) :
         log[i].kind = "end" => \E a \in 1..Len(agents) : agents[a] = log[i].winner
    /\ pc = "END" => Len(result) = 1 /\ log[Len(log)].kind = "end"

C8_Witness ==
    /\ pc = "END"
    /\ N >= 2
    /\ result[1].winner_id = agents[2]
    /\ log[Len(log)].winner = agents[2]

C9_Opens(r) == {i \in 1..Len(r) : r[i] = LB}
C9_Closes(r) == {i \in 1..Len(r) : r[i] = RB}
C9_First(S) == CHOOSE i \in S : \A j \in S : i <= j
C9_Last(S) == CHOOSE i \in S : \A j \in S : i >= j
\* no "{", no "}", the last "}" before the first "{", or no valid JSON from the first "{"
\* to the last "}"
C9_Malformed(r) ==
    \/ C9_Opens(r) = {}
    \/ C9_Closes(r) = {}
    \/ C9_Last(C9_Closes(r)) < C9_First(C9_Opens(r))
    \/ ~JsonLoads(SubSeq(r, C9_First(C9_Opens(r)), C9_Last(C9_Closes(r)))).ok
C9_Scored == nCalls.judge = 1 /\ inflight = {} /\ failure /= CompletionFailure

\* C9: when the completion the single-model judge got is malformed, _score_one returns the
\* judgement with total 0.0, no per-criterion entry and verdict "Parsing failed".
C9_MalformedParsingFailed ==
    C9_Scored /\ C9_Malformed(resp) =>
      /\ failure = ""
      /\ details = <<[k |-> agents[1],
                      v |-> [total |-> Fl(0), per_criterion |-> <<>>,
                             verdict |-> StrV("Parsing failed")]]>>

C9_Witness ==
    /\ C9_Scored
    /\ C9_Opens(resp) /= {}
    /\ C9_Closes(resp) /= {}
    /\ C9_First(C9_Opens(resp)) < C9_Last(C9_Closes(resp))
    /\ C9_Malformed(resp)
    /\ Len(details) = 1
    /\ details[1].v.verdict = StrV("Parsing failed")

\* C10: no completion returned to the single-model judge makes _score_one raise: a run never
\* ends with an exception of the scoring loop.
C10_JudgeNeverRaises == failure \notin {AttributeError, FloatError}

\* the object json.loads made of the text from the first "{" to the last "}"
C11_Parsed(r) == JsonLoads(SubSeq(r, C9_First(C9_Opens(r)), C9_Last(C9_Closes(r)))).v.m
C11_Members(m, key) == {k \in 1..Len(m) : m[k].k = key}
\* the score the object m gives to criterion crit: 0.0 when m has no such criterion or the
\* criterion has no score
C11_Score(m, crit) ==
    IF C11_Members(m, crit) = {} THEN Fl(0)
    ELSE LET info == m[C9_Last(C11_Members(m, crit))].v.m
         IN  IF C11_Members(info, "score") = {} THEN Fl(0)
             ELSE PyFloat(info[C9_Last(C11_Members(info, "score"))].v).f
RECURSIVE C11_Sum(_, _)
C11_Sum(m, n) ==
    IF n = 0 THEN Fl(0)
    ELSE FAdd(C11_Sum(m, n - 1),
              FMulInt(C11_Score(m, DEFAULT_RUBRIC[n].name), DEFAULT_RUBRIC[n].weight))
C11_Judged == C9_Scored /\ ~C9_Malformed(resp) /\ failure = ""

\* C11: when the completion parses and _score_one returns, the total is the sum over the
\* rubric's criteria of score * weight, a criterion absent from the parsed object counting
\* as score 0.0 and the object's other fields counting for nothing, and the per-criterion
\* breakdown has the rubric's criteria, each once, as its keys.
C11_TotalOverRubric ==
    C11_Judged =>
      /\ Len(details) = 1
      /\ details[1].v.total = C11_Sum(C11_Parsed(resp), Len(DEFAULT_RUBRIC))
      /\ [i \in 1..Len(details[1].v.per_criterion) |-> details[1].v.per_criterion[i].crit]
           = [i \in 1..Len(DEFAULT_RUBRIC) |-> DEFAULT_RUBRIC[i].name]

\* a parsed object with one rubric criterion scored 5, four absent, and a foreign field
C11_Witness ==
    /\ C11_Judged
    /\ C11_Members(C11_Parsed(resp), "extra") /= {}
    /\ C11_Members(C11_Parsed(resp), "soundness") /= {}
    /\ C11_Members(C11_Parsed(resp), "evidence") = {}
    /\ details[1].v.total = Fl(30)

C12_MaxTotal == Fl(2 * 90)
C12_AllScoreTen(m) ==
    \A i \in 1..Len(DEFAULT_RUBRIC) : C11_Score(m, DEFAULT_RUBRIC[i].name) = FloatOfInt(10)

\* C12: under the default rubric every total the single-model judge produces is a number
\* from 0 to 90, and it is 90 exactly when every criterion scores 10.
C12_TotalInRange ==
    C9_Scored /\ failure = "" =>
      /\ Len(details) = 1
      /\ ~details[1].v.total.nan
      /\ details[1].v.total.h >= 0
      /\ details[1].v.total.h <= C12_MaxTotal.h
      /\ (details[1].v.total = C12_MaxTotal)
           <=> (~C9_Malformed(resp) /\ C12_AllScoreTen(C11_Parsed(resp)))

\* the sum of the members' totals for the i-th agent of the answers map
C13_Sum(i) == C7_Sum(panels, Len(panels), answers[i].k)
C13_Total(p, i) == Lookup(panels[p].d, answers[i].k).total
C13_Higher(a, b) == ~a.nan /\ ~b.nan /\ a.h > b.h

\* C13: when the panel judge has returned, PanelN members have each judged every answer of
\* the same map, the winner is the first agent in the map's order whose sum of the
\* members' totals is maximal, the returned detail is the first member's judgement map,
\* and an agent that every member scores strictly higher than every other agent wins.
C13_PanelWinner ==
    pc = "SYNTHESIZE" /\ judgeKind = "panel" =>
      /\ Len(panels) = PanelN
      /\ nCalls.judge = PanelN * Len(answers)
      /\ \A p \in 1..Len(panels) : DictKeys(panels[p].d) = DictKeys(answers)
      /\ judged.details = panels[1].d
      /\ \E w \in 1..Len(answers) :
           /\ answers[w].k = judged.winner
           /\ \A j \in 1..Len(answers) :
                ~C13_Sum(j).nan =>
                  /\ ~C13_Sum(w).nan
                  /\ C13_Sum(w).h >= C13_Sum(j).h
                  /\ j < w => C13_Sum(j).h < C13_Sum(w).h
      /\ \A a \in 1..Len(answers) :
           (\A p \in 1..Len(panels) : \A b \in 1..Len(answers) \ {a} :
               C13_Higher(C13_Total(p, a), C13_Total(p, b)))
             => judged.winner = answers[a].k

\* the spellings of a keyword that count as the keyword when case is ignored
C14_Spellings(kw) ==
    IF kw = "security" THEN {"security", "Security", "SECURITY"}
    ELSE IF kw = "risk" THEN {"risk", "Risk", "RISK"}
    ELSE IF kw = "mitigat" THEN {"mitigat", "Mitigat", "MITIGAT"}
    ELSE {kw}
C14_Occurs(kw, text) ==
    \E i \in 1..Len(text) : LineWords(text[i]) \cap C14_Spellings(kw) /= {}
C14_Chars(text) == IF text = <<>> THEN 0 ELSE SumLens(text, 1) + (Len(text) - 1)
\* the terms of the score other than the bullet term, in half points: 1.0 for a heading
\* marker, 1.5 for each keyword that occurs, -2.0 for more than LongTextLimit characters
C14_OtherTerms(text) ==
    (IF \E i \in 1..Len(text) : LineHasHashes(text[i]) THEN 2 ELSE 0)
    + 3 * Cardinality({k \in 1..Len(Keywords) : C14_Occurs(Keywords[k], text)})
    - (IF C14_Chars(text) >= LongTextLimit + 1 THEN 4 ELSE 0)
C14_BulletLines(text) == Cardinality({i \in 1..Len(text) : LineStartsDash(text[i])})
C14_Judged == pc = "SYNTHESIZE" /\ judgeKind = "rules"

\* C14: the heuristic judge's bullet term is 1.0 for every line of the text that begins
\* with "- ": the four-line text TextA gets 2.0 for bullets and 6.0 in total, the text
\* TextB gets 0.0, and TextA wins against TextB.
C14_BulletTerm ==
    C14_Judged =>
      /\ \A i \in 1..Len(answers) :
           LET text == answers[i].v.text
               total == judged.details[i].v.total
           IN  /\ total = Fl(2 * C14_BulletLines(text) + C14_OtherTerms(text))
               /\ text = TextA => total = FloatOfInt(6)
               /\ text = TextB => total = FloatOfInt(0)
      /\ (Len(answers) = 2 /\ answers[1].v.text = TextA /\ answers[2].v.text = TextB)
           => judged.winner = answers[1].k

\* the lines after the first that begin with "- ": the occurrences of "\n- "
C15_NewlineDashes(text) == Cardinality({i \in 1..Len(text) : i >= 2 /\ LineStartsDash(text[i])})

\* C15: apart from its bullet term (1.0 for each "- " that follows a newline), the
\* heuristic score of a text is 1.0 exactly when the text has a "##" or "###" marker, plus
\* 1.5 for each keyword of the list that occurs in it in some case, counted once however
\* often it occurs, minus 2.0 exactly when the text has more than LongTextLimit characters.
C15_OtherTerms ==
    C14_Judged =>
      \A i \in 1..Len(answers) :
        judged.details[i].v.total
          = Fl(2 * C15_NewlineDashes(answers[i].v.text) + C14_OtherTerms(answers[i].v.text))

\* a text of exactly LongTextLimit characters, unpenalised: 1.0 for its one bullet
C15_WitnessLimit ==
    /\ C14_Judged
    /\ Len(answers) = 1
    /\ C14_Chars(answers[1].v.text) = LongTextLimit
    /\ judged.details[1].v.total = Fl(2)
\* a penalised text in which one keyword occurs three times in two cases
C15_Witness ==
    /\ C14_Judged
    /\ Len(answers) = 1
    /\ answers[1].v.text = <<Filler, "SECURITY risk, security risk.">>
    /\ judged.details[1].v.total = Fl(2)

\* the positions of the section headings in a synthesis, and the k-th of them
C17_HeadingsAt(syn) == {p \in 1..Len(syn) : syn[p].hd}
C17_Nth(syn, k) ==
    CHOOSE p \in C17_HeadingsAt(syn) : Cardinality({q \in C17_HeadingsAt(syn) : q < p}) = k - 1
\* the lines of the k-th section below its heading
C17_Body(syn, k) ==
    LET first == C17_Nth(syn, k) + 1
        last == IF k = Cardinality(C17_HeadingsAt(syn)) THEN Len(syn)
                ELSE C17_Nth(syn, k + 1) - 1
    IN  [i \in 1..(last - first + 1) |-> syn[first + i - 1].s]

\* C17: the synthesis of a returned result is one section per agent in the insertion
\* order of the final answers map, which is the order the agents were configured in: the
\* agent id as a heading, then that agent's final answer and an empty line; every
\* configured agent id is the heading of exactly one section.
C17_SectionsInOrder ==
    pc = "END" =>
      LET syn == result[1].final_synthesis
          ans == result[1].answers
      IN  /\ ans = answers
          /\ Cardinality(C17_HeadingsAt(syn)) = Len(ans)
          /\ \A k \in 1..Len(ans) :
               /\ syn[C17_Nth(syn, k)].s = ans[k].k
               /\ ans[k].k = agents[k]
               /\ C17_Body(syn, k) = (IF ans[k].v.text = <<>> THEN <<"">> ELSE ans[k].v.text)
                                        \o <<"">>
          /\ \A a \in AgentIds :
               Cardinality({p \in C17_HeadingsAt(syn) : syn[p].s = a}) = 1

\* three agents whose insertion order is not the sorted order, with different answers
C17_Witness ==
    /\ pc = "END"
    /\ agents = <<"Optimizer", "Conservative", "Skeptic">>
    /\ result[1].answers[1].v.text = TextA
    /\ result[1].answers[2].v.text = TextB
    /\ result[1].final_synthesis[1] = Heading("Optimizer")
    /\ result[1].final_synthesis[7] = Heading("Conservative")

\* the records of a kind, and those of a kind written in iteration k
C18_Records(kind) == {i \in 1..Len(log) : log[i].kind = kind}
C18_RecordsOf(kind, k) == {i \in C18_Records(kind) : log[i].iter = k}

\* C18: the log of a run that has returned holds one propose record per agent, one
\* critique record per ordered pair of different agents and iteration, one defend record
\* per agent and iteration, one start record and one end record, and nothing else; the
\* start record is the first, and the end record, with the winner of the result, the last.
C18_OneRecordPerUnit ==
    pc = "END" =>
      /\ Cardinality(C18_Records("start")) = 1
      /\ Cardinality(C18_Records("end")) = 1
      /\ log[1].kind = "start"
      /\ log[Len(log)].kind = "end"
      /\ log[Len(log)].winner = result[1].winner_id
      /\ \A a \in AgentIds :
           /\ Cardinality({i \in C18_Records("propose") : log[i].agent = a}) = 1
           /\ \A k \in 1..rounds :
                /\ Cardinality({i \in C18_RecordsOf("defend", k) : log[i].agent = a}) = 1
                /\ \A b \in AgentIds :
                     Cardinality({i \in C18_RecordsOf("critique", k) :
                                    log[i].from = a /\ log[i].to = b})
                       = IF a = b THEN 0 ELSE 1
      /\ Len(log) = 2 + N + rounds * (N * (N - 1) + N)

\* three agents and two iterations: 2 + 3 + 2 * (6 + 3) records
C18_Witness ==
    /\ pc = "END"
    /\ N = 3
    /\ rounds = 2
    /\ Len(log) = 23
    /\ log[Len(log)].winner \in AgentIds

\* the place of a record in the order of the phases
C19_Place(r) ==
    IF r.kind = "start" THEN 0
    ELSE IF r.kind = "propose" THEN 1
    ELSE IF r.kind = "critique" THEN 2 * r.iter
    ELSE IF r.kind = "defend" THEN 2 * r.iter + 1
    ELSE 2 * rounds + 2

\* C19: in the log of any run, failed or not, no record comes before a record of an
\* earlier phase: propose records before critique records, the critique records of an
\* iteration before its defend records, and those before the next iteration's critiques.
\* (stated of neighbours, which gives it of every pair of records)
C19_PhasesInOrder ==
    \A i \in 1..Len(log) : i < Len(log) => C19_Place(log[i]) <= C19_Place(log[i + 1])

\* a log with both iterations' critique and defend records
C19_Witness ==
    /\ C18_RecordsOf("critique", 2) /= {}
    /\ C18_RecordsOf("defend", 2) /= {}
    /\ Cardinality(C18_RecordsOf("defend", 1)) >= 2
    /\ Cardinality(C18_Records("propose")) >= 2

\* C20: a failed append to the log sink never stops the run: no run ends with the sink's
\* failure, so the calls, the phases and the result are those of a run with a working sink.
C20_LogFailureIgnored == failure /= LogSinkFailure

\* a unit of work of the running phase whose call has not been issued yet
C21_Unissued ==
    \/ pc \in {"PROPOSE", "DEFEND"} /\ \E i \in 1..Len(tasks) : tasks[i].st = "pending"
    \/ pc = "CRITIQUE" /\ ci + Cardinality(inflight) <= Len(CritiquePairs(answers))

\* C21: the calls of a phase are issued concurrently: while a unit of work of the running
\* phase has no call yet, its call can be issued, whether or not another call of the
\* phase is still in flight.
C21_IssueDoesNotWait ==
    C21_Unissued =>
      \/ pc = "PROPOSE" /\ ENABLED ProposeIssue
      \/ pc = "DEFEND" /\ ENABLED DefendIssue
      \/ pc = "CRITIQUE" /\ ENABLED CritiqueIssue

\* a propose, critique or defend call has failed (a failed judge call has nCalls.judge > 0)
C22_CallFailed ==
    \/ \E i \in 1..Len(tasks) : tasks[i].st = "raised" /\ tasks[i].exc = CompletionFailure
    \/ failure = CompletionFailure /\ nCalls.judge = 0
\* the calls issued so far for the units of work of the running phase: one per unit at most
C22_OncePerUnit ==
    /\ pc = "PROPOSE" =>
         nCalls.propose = Cardinality({i \in 1..Len(tasks) : tasks[i].st /= "pending"})
    /\ pc = "DEFEND" =>
         nCalls.defend = (iter - 1) * N
                           + Cardinality({i \in 1..Len(tasks) : tasks[i].st /= "pending"})
    /\ pc = "CRITIQUE" =>
         nCalls.critique = (iter - 1) * N * (N - 1) + (ci - 1) + Cardinality(inflight)
C22_NoOutcome ==
    /\ nCalls.judge = 0
    /\ judged = NoJudged
    /\ result = <<>>
    /\ \A i \in 1..Len(log) : log[i].kind /= "end"
    /\ pc \notin {"JUDGE", "SYNTHESIZE", "END"}

\* C22: once a propose, critique or defend call has failed, the run stays in that phase and
\* iteration until it fails: the failed unit's call is not issued again, no call of another
\* phase is issued, the judge is not invoked, and no end record and no result is produced.
C22_FailureAborts ==
    [][ /\ C22_OncePerUnit /\ C22_OncePerUnit'
        /\ C22_CallFailed =>
             /\ C22_NoOutcome /\ C22_NoOutcome'
             /\ pc' \in {pc, "FAILED"}
             /\ iter' = iter
             /\ pc = "PROPOSE" => nCalls'.critique = 0 /\ nCalls'.defend = 0
             /\ pc = "DEFEND" => nCalls'.critique = nCalls.critique /\ nCalls'.propose = N
             /\ pc = "CRITIQUE" => nCalls' = nCalls
             /\ pc = "FAILED" => nCalls' = nCalls
             /\ \A i \in 1..Len(tasks) : tasks[i].st = "raised" => tasks'[i] = tasks[i] ]_vars

\* the first agent's defend call of the second iteration failed, its siblings' calls
\* returned, and the run has failed
C22_Witness ==
    /\ pc = "FAILED"
    /\ failure = CompletionFailure
    /\ iter = 2
    /\ Len(tasks) = 3
    /\ tasks[1].st = "raised"
    /\ tasks[3].st = "done"
    /\ nCalls.defend = 6

\* nothing of the protocol has happened: no record, no call, no phase
C23_NotStarted ==
    /\ pc \in {"CLI", "FAILED"}
    /\ log = <<>>
    /\ nCalls = [propose |-> 0, critique |-> 0, defend |-> 0, judge |-> 0]
    /\ inflight = {}
C23_Rejected == C23_NotStarted /\ (pc = "FAILED" => failure \in ConfigErrors)

\* C23: a session whose question is the empty string is rejected before any phase runs
\* and before any completion call is issued: it ends in cli.run, and Debate.run is never
\* entered (a configuration error, or the log sink that could not be opened).
C23_EmptyQuestionRejected == question = "" => C23_NotStarted

\* what is wrong with a command line
C24_UnknownId == \E i \in 1..Len(args.agents) : Strip(args.agents[i]) \notin Registry \cup {""}
C24_MalformedRole ==
    \E i \in 1..Len(args.roles) : \A j \in 1..Len(args.roles[i]) : args.roles[i][j] /= ":"
C24_UnknownJudge == args.judge \notin {"gpt", "panel", "rules", "Rules", ""}
\* no --judge text: judge_factory takes "gpt", and cli.run has made no capability for it
C24_NoCapability == args.judge = ""
C24_BadConfiguration ==
    C24_UnknownId \/ C24_MalformedRole \/ C24_UnknownJudge \/ C24_NoCapability

\* C24: a command line with an unknown agent id, an ad-hoc role without ":", an unknown
\* judge kind or a model-based judge without a capability fails with a configuration
\* error before any phase starts: no start record, no completion call; the failed run
\* does nothing more.
C24_BadConfigurationFailsFast ==
    (args /= NoArgs /\ C24_BadConfiguration) =>
      /\ C23_Rejected
      /\ agents = <<>>
      /\ result = <<>>

\* an unknown id on a command line with nothing else wrong
C24_Witness ==
    /\ pc = "FAILED"
    /\ failure = BadParameter
    /\ C24_UnknownId
    /\ ~C24_MalformedRole /\ ~C24_UnknownJudge /\ ~C24_NoCapability
    /\ log = <<>>

\* C25: a session whose agent set is empty is rejected before the start record is logged
\* and before the propose phase, not later in the protocol.
C25_EmptyAgentSetRejected ==
    (args /= NoArgs /\ ParseAgentIds(args.agents) = <<>> /\ args.roles = <<>>) =>
      C23_NotStarted

\* the answers the last defend phase returned: one per agent, in the agents' order
C26_FinalAnswers(ans) ==
    /\ DictKeys(ans) = agents
    /\ \A i \in 1..Len(ans) : ans[i].v.gen = rounds
\* the state of the result: none before END; at END the one result, made of the final
\* answers, their synthesis, the judge's winner and details, and the end record's winner
C26_Consistent ==
    /\ Len(result) <= 1
    /\ result /= <<>> <=> pc = "END"
    /\ \A c \in inflight : c.op = "judge" =>
         C26_FinalAnswers(answers) /\ c.text = Lookup(answers, c.agent)
    /\ pc = "END" =>
         LET res == result[1]
         IN  /\ res.answers = answers
             /\ C26_FinalAnswers(res.answers)
             /\ Cardinality(C17_HeadingsAt(res.final_synthesis)) = Len(res.answers)
             /\ \A k \in 1..Len(res.answers) :
                  /\ res.final_synthesis[C17_Nth(res.final_synthesis, k)].s = res.answers[k].k
                  /\ C17_Body(res.final_synthesis, k) = res.answers[k].v.text \o <<"">>
             /\ judged /= NoJudged
             /\ res.winner_id = judged.winner
             /\ res.judge_details = judged.details
             /\ DictKeys(res.judge_details) = DictKeys(res.answers)
             /\ log[Len(log)].kind = "end"
             /\ log[Len(log)].winner = res.winner_id

\* C26: the result is produced once, by the step that follows the judge's return and
\* writes the end record, and is never changed; its answers are the map the last defend
\* phase returned and the judge was given, its synthesis is made of that map, its winner
\* is the end record's, and its judge details have one entry per agent.
C26_ResultOnceAndConsistent ==
    [][ /\ C26_Consistent /\ C26_Consistent'
        /\ result' /= result =>
             /\ result = <<>>
             /\ pc = "SYNTHESIZE"
             /\ judged /= NoJudged
             /\ Len(log') = Len(log) + 1 ]_vars

\* a run of two agents and two iterations that the second agent won
C26_Witness ==
    /\ pc = "END"
    /\ N = 2
    /\ rounds = 2
    /\ result[1].winner_id = agents[2]
    /\ result[1].answers[1].v.text /= result[1].answers[2].v.text

\* a call or an append did not return: it raised
C27_CallOrAppendFailed == failure \in {CompletionFailure, LogSinkFailure}
\* the run halts: with its result, or with an exception
C27_Halts == <>(pc \in {"END", "FAILED"})

\* C27: a run of one or more agents in which every completion call and every log append
\* returns eventually reaches END and has a result (equivalently: every run eventually reaches END with a
\* result, or a call or an append of it failed).
C27_ReachesEnd ==
    N >= 1 => <>((pc = "END" /\ result /= <<>>) \/ C27_CallOrAppendFailed)

\* the records of the phase in progress, in the order they were written
C28_PhaseRecords(kind) == SelectSeq(log, LAMBDA r : r.kind = kind /\ r.iter = iter)
\* the agents whose task of the phase has returned and logged, in the agents' order
C28_DoneAgents ==
    LET idx == SelectSeq([i \in 1..Len(tasks) |-> i], LAMBDA i : tasks[i].st = "done")
    IN  [k \in 1..Len(idx) |-> agents[idx[k]]]
\* a gathered phase: the tasks before the running one have finished and those after it
\* have not begun, the one call in flight is the running task's, and the phase's records
\* are those of the returned tasks, in the agents' order
C28_GatheredSerial(op) ==
    /\ Len(tasks) = N
    /\ \A i \in 1..N :
         /\ tasks[i].st /= "pending" => \A j \in 1..(i - 1) : Finished(tasks[j])
         /\ tasks[i].st = "running" =>
              \E c \in inflight : inflight = {c} /\ c.op = op /\ c.agent = agents[i]
    /\ (\A i \in 1..N : tasks[i].st /= "running") => inflight = {}
    /\ LET recs == C28_PhaseRecords(op)
       IN  /\ Len(recs) = Len(C28_DoneAgents)
           /\ \A k \in 1..Len(recs) : recs[k].agent = C28_DoneAgents[k]
\* a critique phase: the records are those of the pairs before ci, target-major, and the
\* one call in flight is the pair's at ci
C28_CritiqueSerial ==
    LET recs == C28_PhaseRecords("critique")
        pairs == CritiquePairs(answers)
    IN  /\ Len(recs) = ci - 1
        /\ ci - 1 <= Len(pairs)
        /\ \A k \in 1..Len(recs) :
             recs[k].from = pairs[k].critic /\ recs[k].to = pairs[k].target
        /\ \A c \in inflight :
             /\ ci <= Len(pairs)
             /\ c.op = "critique"
             /\ c.agent = pairs[ci].critic
             /\ c.target = pairs[ci].target
        /\ \A k \in 1..(Len(pairs) - 1) :
             \E a, b \in 1..N :
                /\ pairs[k].target = agents[a] /\ pairs[k + 1].target = agents[b]
                /\ a <= b
                /\ a = b => \E x, y \in 1..N :
                     x < y /\ pairs[k].critic = agents[x] /\ pairs[k + 1].critic = agents[y]

\* C28: at most one completion call is in flight; a call of a phase is issued only when
\* the calls before it have returned and their records are written; within a phase the
\* calls and records follow the agents' insertion order (target-major, then critic, for
\* critiques).
C28_OneCallAtATime ==
    /\ Cardinality(inflight) <= 1
    /\ pc = "PROPOSE" => C28_GatheredSerial("propose")
    /\ pc = "DEFEND" => C28_GatheredSerial("defend")
    /\ pc = "CRITIQUE" => C28_CritiqueSerial

\* the second of three defences is in flight; the first is logged, the third not begun
C28_Witness ==
    /\ pc = "DEFEND"
    /\ N = 3
    /\ tasks[1].st = "done" /\ tasks[2].st = "running" /\ tasks[3].st = "pending"
    /\ \E c \in inflight : c.agent = agents[2] /\ c.op = "defend"
    /\ Len(C28_PhaseRecords("defend")) = 1

\* the judge's winner is the first agent, in the configured order, of those with the
\* highest total
C29_TieBreakInAgentOrder ==
    /\ DictKeys(judged.details) = agents
    /\ \E w \in 1..N :
         /\ agents[w] = judged.winner
         /\ \A j \in 1..(w - 1) :
              LET tj == judged.details[j].v.total
                  tw == judged.details[w].v.total
              IN  (~tj.nan /\ ~tw.nan) => tj.h < tw.h
\* the sections of the synthesis are the configured agents', in their order
C29_SynthesisInAgentOrder ==
    LET syn == result[1].final_synthesis
    IN  /\ Cardinality(C17_HeadingsAt(syn)) = N
        /\ \A k \in 1..N : syn[C17_Nth(syn, k)].s = agents[k]

\* C29: once the propose phase has returned, and after every defend phase, the answers
\* map holds the configured agents in their insertion order; so the judge breaks a tie
\* in that order and the synthesis lists the agents in that order.
C29_AnswersInAgentOrder ==
    /\ answers /= <<>> => DictKeys(answers) = agents
    /\ (pc \in {"CRITIQUE", "DEFEND", "JUDGE", "SYNTHESIZE", "END"}) => DictKeys(answers) = agents
    /\ (pc \in {"SYNTHESIZE", "END"}) => C29_TieBreakInAgentOrder
    /\ pc = "END" => C29_SynthesisInAgentOrder

\* a run of three agents and two iterations whose judge gave every answer the same
\* total: the first configured agent won
C29_Witness ==
    /\ pc = "END"
    /\ N = 3
    /\ iter = 2
    /\ \A j \in 1..N : judged.details[j].v.total = judged.details[1].v.total
    /\ ~judged.details[1].v.total.nan
    /\ result[1].winner_id = agents[1]
    /\ DictKeys(result[1].answers) = agents

\* every task of the gathered phase has run: its call was issued, and it returned and
\* was logged, or it raised
C30_SiblingsRan(op) ==
    /\ Len(tasks) = N
    /\ \A i \in 1..N : tasks[i].st \in {"done", "raised"}
    /\ nCalls[op] = (IF op = "defend" THEN iter ELSE 1) * N
    /\ \A i \in 1..N :
         tasks[i].st = "done" <=>
           \E k \in 1..Len(log) :
              log[k].kind = op /\ log[k].iter = iter /\ log[k].agent = agents[i]
\* the log of a failed run keeps its records and has no end record
C30_NoEndRecord == \A k \in 1..Len(log) : log[k].kind /= "end"

\* C30: a run fails in the propose or a defend phase only when every task of the phase
\* has run (its call issued; logged if it returned), whichever task raised; a failure in
\* a critique phase ends the run in the step of the failing pair, the pairs after it
\* never called; the failing step and the failed run leave the log as it was, without
\* an end record.
C30_SiblingsNotCancelled ==
    [][ /\ pc = "FAILED" => FALSE
        /\ pc' = "FAILED" =>
             /\ log' = log
             /\ nCalls' = nCalls
             /\ C30_NoEndRecord'
             /\ pc = "PROPOSE" => C30_SiblingsRan("propose") /\ inflight = {}
             /\ pc = "DEFEND" => C30_SiblingsRan("defend") /\ inflight = {}
             /\ pc = "CRITIQUE" =>
                  /\ nCalls.critique = (iter - 1) * N * (N - 1) + ci
                  /\ ci' = ci
                  /\ inflight' = {} ]_vars

\* the first of three proposals failed; the other two were issued, returned and were
\* logged before the run failed
C30_Witness ==
    /\ pc = "FAILED"
    /\ failure = CompletionFailure
    /\ iter = 0
    /\ N = 3
    /\ tasks[1].st = "raised" /\ tasks[2].st = "done" /\ tasks[3].st = "done"
    /\ nCalls = [propose |-> 3, critique |-> 0, defend |-> 0, judge |-> 0]
    /\ Len(log) = 3
    /\ log[2].agent = agents[2] /\ log[3].agent = agents[3]

====
